---- MODULE Spec2Model ----
(***************************************************************************)
(* card-vault client: the trade-offer detail view (pages/OfferDetails.jsx), *)
(* the session store (context/AuthContext.jsx), the API gateway            *)
(* (services/api.js) and the notification poller                           *)
(* (context/NotificationContext.jsx), with the REST backend as the         *)
(* environment.  The specifications share the variables: SpecOffer runs    *)
(* one OfferDetails instance for a fixed viewer, SpecSession runs the      *)
(* session store, the gateway and the poller, SpecNotif runs the           *)
(* notification store of a logged-in user (SpecNotifLive adds the          *)
(* scheduling of timers and responses), SpecThread runs the message thread *)
(* of one OfferDetails instance, SpecReload the initial check behind       *)
(* ProtectedRoute, SpecProfile the profile page with updateUser, SpecForms *)
(* the register, login and password forms, SpecLists the collection,       *)
(* wishlist and my-listings views.                                         *)
(***************************************************************************)
EXTENDS Integers, FiniteSets, Sequences, TLC

\* ------------------------------------------------------------------ bounds
MaxInFlight == 2
MaxRedirects == 2
MaxMessages == 2
MaxMarkReads == 2
\* requests of a list view that are unanswered at one time
MaxItemCalls == 1

\* ------------------------------------------------------------ value spaces
OfferIds == {1, 2}
UserIds == {"u1", "u2", "u3"}
\* u1 buys offer 1 and sells offer 2; u3 is a party to neither
Viewers == {"u1", "u3"}
Statuses == {"pending", "accepted", "declined", "cancelled"}
Terminal == {"accepted", "declined", "cancelled"}
Texts == {"", "ok"}
Copies == 1..(MaxInFlight + 1)
TransitionKinds == {"accept", "decline", "cancel"}
LoginKinds == {"login", "register", "socialLogin"}
NotifIds == {1, 2}

\* user === null
NoUser == [_id |-> "-", username |-> "-", bio |-> "-", avatar |-> "-"]
UserRec(u) == [_id |-> u, username |-> u, bio |-> "", avatar |-> ""]

\* offer === null
NoOffer == [_id |-> 0, buyer |-> "-", seller |-> "-", status |-> "none",
            responseMessage |-> ""]

\* an empty slot of the network; every request and response has this shape
NoMsg == [kind |-> "none", phase |-> "none", status |-> 0, oid |-> 0,
          offer |-> NoOffer, text |-> "", auth |-> "none", user |-> NoUser,
          count |-> 0, list |-> <<>>, closure |-> NoUser, n |-> 0]

Req(k, o, t, a) == [NoMsg EXCEPT !.kind = k, !.phase = "req", !.oid = o,
                                 !.text = t, !.auth = a]

VARIABLES
  \* OfferDetails component state
  id, offer, loading, error, showResponseForm, responseMessage, responding,
  \* OfferDetails component state, the message thread
  messages, newMessage, sendingMessage,
  \* AuthProvider state, localStorage, window.location
  user, authLoading, authError, lsToken, lsUser, pathname, pendingNav,
  redirects,
  \* NotificationProvider state
  intervals, unreadCount, notifications, notifLoading,
  \* backend
  srvOffers, srvValid, srvUnread, srvNotifs, srvMessages,
  \* requests and responses in flight
  net,
  \* history: the last step taken, how the session was established since
  \* the page was loaded, the mark-thread-read calls since the view was
  \* entered
  lastEvent, origin, markReads,
  \* Profile component state, the backend's user document
  profileSaving, avatarUploading, profileError, srvUser,
  \* the register, login and password forms
  formKind, formData, formError, formLoading,
  \* Collection, Wishlist and MyListings component state, the backend's list
  view, items, itemsLoading, itemsError, totalCards, editingId, editValue,
  toast, srvItems

offerVars == <<id, offer, loading, error, showResponseForm, responseMessage,
               responding, srvOffers>>
sessionVars == <<user, authLoading, authError, lsToken, lsUser, pathname,
                 pendingNav, redirects, intervals, unreadCount, srvValid,
                 srvUnread, origin>>
notifVars == <<notifications, notifLoading, srvNotifs>>
threadVars == <<messages, newMessage, sendingMessage, srvMessages,
                markReads>>
profileVars == <<profileSaving, avatarUploading, profileError, srvUser>>
formVars == <<formKind, formData, formError, formLoading>>
listVars == <<view, items, itemsLoading, itemsError, totalCards, editingId,
              editValue, toast, srvItems>>
pageVars == <<profileVars, formVars, listVars>>
vars == <<offerVars, sessionVars, notifVars, threadVars, pageVars, net,
          lastEvent>>

\* ------------------------------------------------------------ the network
\* A request reaches the backend when it is dispatched and is answered
\* there; net is the set of responses that are on their way back and may
\* arrive in any order.  n tells apart responses of one kind that are
\* otherwise equal (a double click).
HasFree == Cardinality(net) < MaxInFlight
Put(nw, m) == LET used == {x.n : x \in {y \in nw : y.kind = m.kind}}
                  k == CHOOSE c \in Copies \ used :
                         \A d \in Copies \ used : c <= d
              IN  nw \cup {[m EXCEPT !.n = k]}
Take(nw, m) == nw \ {m}
Resp(m, st, o) == [m EXCEPT !.phase = "resp", !.status = st, !.offer = o,
                            !.text = ""]

\* a gateway that attaches the token of the session it has seen established
AuthHeader_Captured == IF origin # "none" THEN "tok" ELSE lsToken

\* services/api.js lines 26-37: the request interceptor attaches the token
\* that is in storage when the request is dispatched
AuthHeader == lsToken

\* ------------------------------------------------- backend, trade offers
\* the party a transition belongs to
PartyOf(k, o) == IF k = "cancel" THEN o.buyer ELSE o.seller
StatusOf(k) == CASE k = "accept" -> "accepted"
                 [] k = "decline" -> "declined"
                 [] OTHER -> "cancelled"

\* A request without a session is refused.
\* GET /trade-offers/:id answers with the stored offer or with an error.
\* PUT /trade-offers/:id/{accept,decline,cancel}: only the right party, only
\* while pending; 409 when the offer is no longer pending, 403 for the wrong
\* party, 500 for any other failure.  Each answer is the response and the
\* offers the backend holds afterwards.
Answer(r, os) == [resp |-> r, offers |-> os]
OfferAnswers(m) ==
  LET o == srvOffers[m.oid]
      n == [o EXCEPT !.status = StatusOf(m.kind),
                     !.responseMessage =
                        IF m.kind = "cancel" THEN @ ELSE m.text]
  IN  IF user = NoUser
      THEN {Answer(Resp(m, 401, NoOffer), srvOffers)}
      ELSE IF m.kind = "getById"
      THEN {Answer(Resp(m, 200, o), srvOffers),
            Answer(Resp(m, 404, NoOffer), srvOffers)}
      ELSE IF o.status # "pending"
      THEN {Answer(Resp(m, 409, NoOffer), srvOffers)}
      ELSE IF user._id # PartyOf(m.kind, o)
      THEN {Answer(Resp(m, 403, NoOffer), srvOffers)}
      ELSE {Answer(Resp(m, 200, n), [srvOffers EXCEPT ![m.oid] = n]),
            Answer(Resp(m, 500, NoOffer), srvOffers)}

\* dispatch of a trade-offer request
CallOfferAPI(m) ==
  /\ HasFree
  /\ \E a \in OfferAnswers(m) :
       /\ net' = Put(net, a.resp)
       /\ srvOffers' = a.offers

\* ==================================================== OfferDetails.jsx ====
\* lines 47-48
isBuyer == user # NoUser /\ offer # NoOffer /\ offer.buyer = user._id
isSeller == user # NoUser /\ offer # NoOffer /\ offer.seller = user._id

\* lines 166-180: neither the loader nor the error page is rendered
MainRender == ~loading /\ ~error /\ offer # NoOffer

\* the actions section rendered whatever the status is
ActionsShown_AnyStatus == MainRender

\* line 269: the actions section
ActionsShown == MainRender /\ offer.status = "pending"
\* line 271: the Accept / Decline buttons
RespondButtonsShown == ActionsShown /\ isSeller /\ showResponseForm = "none"
\* line 288: the Cancel button
CancelButtonShown == ActionsShown /\ isBuyer
\* line 295: the response form with its Confirm button
ResponseFormShown == ActionsShown /\ showResponseForm # "none"

\* the view computing the new status itself instead of taking the response
OfferFromResponse_Synthesized(m) ==
  IF m.kind = "getById" THEN m.offer
  ELSE [offer EXCEPT !.status = StatusOf(m.kind)]

\* lines 56, 117, 121, 138: setOffer(response.data.data)
OfferFromResponse(m) == m.offer

\* lines 126-128, 140-142: a failed accept / decline / cancel only toasts
OfferAfterFailure(m) == offer

\* lines 51-66: the effect on [id] (also the mount effect)
fetchOffer(newId) ==
  /\ id' = newId
  /\ loading' = TRUE
  /\ CallOfferAPI(Req("getById", newId, "", AuthHeader))

ChangeId ==
  \E newId \in OfferIds \ {id} :
    /\ fetchOffer(newId)
    /\ lastEvent' = "other"
    /\ UNCHANGED <<offer, error, showResponseForm, responseMessage,
                   responding, sessionVars, notifVars, threadVars, pageVars>>

\* lines 55-56, 61-62: the fetched offer arrives
OfferLoaded(s) ==
  /\ s.kind = "getById" /\ s.phase = "resp" /\ s.status = 200
  /\ offer' = OfferFromResponse(s)
  /\ loading' = FALSE
  /\ lastEvent' = "other"
  /\ UNCHANGED <<id, error, showResponseForm, responseMessage, responding,
                 srvOffers, sessionVars, notifVars, threadVars, pageVars>>

\* the thread's requests are left out
FetchOfferOk ==
  \E s \in net :
    /\ OfferLoaded(s)
    /\ net' = Take(net, s)

FetchOfferFail ==
  \E s \in net :
    /\ s.kind = "getById" /\ s.phase = "resp" /\ s.status # 200
    /\ error' = TRUE
    /\ loading' = FALSE
    /\ net' = Take(net, s)
    /\ lastEvent' = "other"
    /\ UNCHANGED <<id, offer, showResponseForm, responseMessage, responding,
                   srvOffers, sessionVars, notifVars, threadVars, pageVars>>

\* lines 275, 281
ClickRespondButton ==
  \E a \in {"accept", "decline"} :
    /\ RespondButtonsShown
    /\ showResponseForm' = a
    /\ lastEvent' = "other"
    /\ UNCHANGED <<id, offer, loading, error, responseMessage, responding,
                   srvOffers, sessionVars, notifVars, threadVars, pageVars, net>>

\* line 302
TypeResponseMessage ==
  \E t \in Texts \ {responseMessage} :
    /\ ResponseFormShown
    /\ responseMessage' = t
    /\ lastEvent' = "other"
    /\ UNCHANGED <<id, offer, loading, error, showResponseForm, responding,
                   srvOffers, sessionVars, notifVars, threadVars, pageVars, net>>

\* line 310
ClickBack ==
  /\ ResponseFormShown /\ ~responding
  /\ showResponseForm' = "none"
  /\ responseMessage' = ""
  /\ lastEvent' = "other"
  /\ UNCHANGED <<id, offer, loading, error, responding, srvOffers,
                 sessionVars, notifVars, threadVars, pageVars, net>>

\* lines 112-116, 120, 317: Confirm calls handleRespond(showResponseForm)
handleRespond ==
  /\ ResponseFormShown /\ ~responding
  /\ responding' = TRUE
  /\ CallOfferAPI(Req(showResponseForm, id, responseMessage, AuthHeader))
  /\ lastEvent' = "other"
  /\ UNCHANGED <<id, offer, loading, error, showResponseForm,
                 responseMessage, sessionVars, notifVars, threadVars, pageVars>>

\* lines 117-125, 129
RespondOk ==
  \E s \in net :
    /\ s.kind \in {"accept", "decline"}
    /\ s.phase = "resp" /\ s.status = 200
    /\ offer' = OfferFromResponse(s)
    /\ showResponseForm' = "none"
    /\ responseMessage' = ""
    /\ responding' = FALSE
    /\ net' = Take(net, s)
    /\ lastEvent' = "transitionOk"
    /\ UNCHANGED <<id, loading, error, srvOffers, sessionVars, notifVars, threadVars, pageVars>>

\* lines 126-129
RespondFail ==
  \E s \in net :
    /\ s.kind \in {"accept", "decline"}
    /\ s.phase = "resp" /\ s.status # 200
    /\ offer' = OfferAfterFailure(s)
    /\ responding' = FALSE
    /\ net' = Take(net, s)
    /\ lastEvent' = "other"
    /\ UNCHANGED <<id, loading, error, showResponseForm, responseMessage,
                   srvOffers, sessionVars, notifVars, threadVars, pageVars>>

\* lines 133-137, 289 (the user confirms the dialog)
handleCancel ==
  /\ CancelButtonShown
  /\ CallOfferAPI(Req("cancel", id, "", AuthHeader))
  /\ lastEvent' = "other"
  /\ UNCHANGED <<id, offer, loading, error, showResponseForm,
                 responseMessage, responding, sessionVars, notifVars, threadVars, pageVars>>

\* lines 138-139: the cancelled offer arrives
OfferCancelled(s) ==
  /\ s.kind = "cancel" /\ s.phase = "resp" /\ s.status = 200
  /\ offer' = OfferFromResponse(s)
  /\ lastEvent' = "transitionOk"
  /\ UNCHANGED <<id, loading, error, showResponseForm, responseMessage,
                 responding, srvOffers, sessionVars, notifVars, threadVars, pageVars>>

\* the thread's requests are left out
CancelOk ==
  \E s \in net :
    /\ OfferCancelled(s)
    /\ net' = Take(net, s)

\* lines 140-142
CancelFail ==
  \E s \in net :
    /\ s.kind = "cancel" /\ s.phase = "resp" /\ s.status # 200
    /\ offer' = OfferAfterFailure(s)
    /\ net' = Take(net, s)
    /\ lastEvent' = "other"
    /\ UNCHANGED <<id, loading, error, showResponseForm, responseMessage,
                   responding, srvOffers, sessionVars, notifVars, threadVars, pageVars>>

\* the other party (or another tab) resolves a pending offer
OtherPartyResolves ==
  \E o \in OfferIds, k \in TransitionKinds :
    /\ srvOffers[o].status = "pending"
    /\ srvOffers' = [srvOffers EXCEPT ![o].status = StatusOf(k)]
    /\ lastEvent' = "other"
    /\ UNCHANGED <<id, offer, loading, error, showResponseForm,
                   responseMessage, responding, sessionVars, notifVars, threadVars, pageVars, net>>

InitialOffers ==
  [o \in OfferIds |->
     [_id |-> o,
      buyer |-> IF o = 1 THEN "u1" ELSE "u2",
      seller |-> IF o = 1 THEN "u2" ELSE "u1",
      status |-> "pending", responseMessage |-> ""]]

\* the session side is at rest while the offer view runs
SessionAtRest ==
  /\ authLoading = FALSE /\ authError = "none"
  /\ lsToken = "none" /\ lsUser = NoUser
  /\ pathname = "/app" /\ pendingNav = FALSE /\ redirects = 0
  /\ intervals = 0 /\ unreadCount = 0
  /\ notifications = <<>> /\ notifLoading = FALSE
  /\ srvValid = TRUE /\ srvUnread = 0
  /\ srvNotifs = [i \in NotifIds |-> "read"]
  /\ origin = "none"

\* the message thread is left out
ThreadAtRest ==
  /\ messages = <<>> /\ newMessage = "" /\ sendingMessage = FALSE
  /\ srvMessages = 0 /\ markReads = 0

\* the profile page, the forms and the list views are left out
ProfileAtRest ==
  /\ profileSaving = FALSE /\ avatarUploading = FALSE
  /\ profileError = "none" /\ srvUser = UserRec("u1")

FormsAtRest ==
  /\ formKind = "none" /\ formData = <<>>
  /\ formError = "none" /\ formLoading = FALSE

ListsAtRest ==
  /\ view = "none" /\ items = <<>> /\ itemsLoading = FALSE
  /\ itemsError = FALSE /\ totalCards = 0 /\ editingId = 0 /\ editValue = 0
  /\ toast = "none" /\ srvItems = <<>>

\* OfferDetails has mounted for some id and some viewer; the mount effect
\* has dispatched the first fetch (lines 29-41, 51-66)
InitOffer ==
  /\ id \in OfferIds
  /\ offer = NoOffer
  /\ loading = TRUE
  /\ error = FALSE
  /\ showResponseForm = "none"
  /\ responseMessage = ""
  /\ responding = FALSE
  /\ user \in {NoUser} \cup {UserRec(u) : u \in Viewers}
  /\ srvOffers = InitialOffers
  /\ \E st \in (IF user = NoUser THEN {401} ELSE {200, 404}) :
       net = Put({}, Resp(Req("getById", id, "", "none"), st,
                          IF st = 200 THEN InitialOffers[id] ELSE NoOffer))
  /\ lastEvent = "other"
  /\ SessionAtRest
  /\ ThreadAtRest
  /\ ProfileAtRest /\ FormsAtRest /\ ListsAtRest

NextOffer ==
  \/ ChangeId
  \/ FetchOfferOk
  \/ FetchOfferFail
  \/ ClickRespondButton
  \/ TypeResponseMessage
  \/ ClickBack
  \/ handleRespond
  \/ RespondOk
  \/ RespondFail
  \/ handleCancel
  \/ CancelOk
  \/ CancelFail
  \/ OtherPartyResolves

SpecOffer == InitOffer /\ [][NextOffer]_vars

\* ================================================== services/api.js ====
IsAuthenticated == user # NoUser

\* lines 54-61: on a 401 the stored token (and user) are removed
Intercept401(st, tok) == IF st = 401 THEN "none" ELSE tok
InterceptUser(st, u) == IF st = 401 THEN NoUser ELSE u

\* lines 63-66: window.location.href = '/login' unless already there
InterceptRedirects(st) == st = 401 /\ pathname # "/login"

Min(a, b) == IF a <= b THEN a ELSE b

\* the interceptor's effect on window.location; the assignment starts a
\* navigation that is committed later (NavigationCommit)
Redirect(st) ==
  /\ pendingNav' = (pendingNav \/ InterceptRedirects(st))
  /\ redirects' = IF InterceptRedirects(st)
                  THEN Min(redirects + 1, MaxRedirects) ELSE redirects

\* ---------------------------------------------- backend, session endpoints
\* /auth/me, /auth/logout, /notifications/unread-count: 401 without a valid
\* token, otherwise the answer or a failure
AuthAnswers(k, tok) ==
  LET m == Req(k, 0, "", tok)
  IN  IF tok = "tok" /\ srvValid
      THEN {[Resp(m, 200, NoOffer) EXCEPT
               !.user = IF k = "getMe" THEN UserRec("u1") ELSE NoUser,
               !.count = IF k = "unreadCount" THEN srvUnread ELSE 0],
            Resp(m, 500, NoOffer)}
      ELSE {Resp(m, 401, NoOffer)}

\* /auth/login, /auth/register, /auth/social: a token and the user, a
\* refusal that carries the server's message (401), or a failure without a
\* response body
LoginAnswers(k, tok) ==
  LET m == Req(k, 0, "", tok)
      refusal == IF k = "register" THEN 400 ELSE 401
  IN  {[Resp(m, 200, NoOffer) EXCEPT !.user = UserRec("u1")],
       [Resp(m, refusal, NoOffer) EXCEPT !.text = "refused"],
       Resp(m, 500, NoOffer)}

\* ================================================ NotificationContext ====
\* an effect that leaves the previous interval running
effectCleanup_Missing(n, was) == n

\* line 110: the cleanup of the previous run clears the interval it created
effectCleanup(n, was) == IF was THEN n - 1 ELSE n

\* the effect creating the interval without fetching first
FetchOnEntry_Missing == FALSE

\* line 104: fetchUnreadCount() right away when the user logs in
FetchOnEntry == TRUE

\* lines 96-111: setUser(u) and the polling effect that the change of
\* isAuthenticated runs; nw is the network the handler leaves, tok the stored
\* token when the effect runs
setUser(u, nw, tok) ==
  LET was == IsAuthenticated
      now == u # NoUser
  IN  /\ user' = u
      /\ IF was = now
         THEN /\ intervals' = intervals
              /\ unreadCount' = unreadCount
              /\ notifications' = notifications
              /\ net' = nw
         ELSE IF now
         THEN /\ intervals' = effectCleanup(intervals, was) + 1
              /\ unreadCount' = unreadCount
              /\ notifications' = notifications
              /\ IF FetchOnEntry
                 THEN \E a \in AuthAnswers("unreadCount", tok) :
                        net' = Put(nw, a)
                 ELSE net' = nw
         ELSE /\ intervals' = effectCleanup(intervals, was)
              /\ unreadCount' = 0
              /\ notifications' = <<>>
              /\ net' = nw

\* lines 36-48, 107: an interval tick calls fetchUnreadCount of the render
\* that created the interval, where isAuthenticated is true
Tick ==
  /\ intervals >= 1
  /\ HasFree
  /\ \E a \in AuthAnswers("unreadCount", AuthHeader) : net' = Put(net, a)
  /\ lastEvent' = "tick"
  /\ UNCHANGED <<offerVars, sessionVars, notifVars, threadVars, pageVars>>

\* a store that keeps the smaller of the local count and the snapshot
CountFromSnapshot_LocalWins(local, c) == Min(local, c)

\* line 44: setUnreadCount(response.data.count)
CountFromSnapshot(local, c) == c

\* lines 43-44: the response is applied whatever the session is by then
UnreadCountOk ==
  \E s \in net :
    /\ s.kind = "unreadCount" /\ s.status = 200
    /\ unreadCount' = CountFromSnapshot(unreadCount, s.count)
    /\ net' = Take(net, s)
    /\ lastEvent' = "other"
    /\ UNCHANGED <<offerVars, threadVars, pageVars, notifLoading, srvNotifs,
                   authError, notifications, user, authLoading, lsToken, lsUser, pathname,
                   pendingNav, redirects, intervals, srvValid, srvUnread,
                   origin>>

\* lines 45-47, after the response interceptor
UnreadCountFail ==
  \E s \in net :
    /\ s.kind = "unreadCount" /\ s.status # 200
    /\ lsToken' = Intercept401(s.status, lsToken)
    /\ lsUser' = InterceptUser(s.status, lsUser)
    /\ Redirect(s.status)
    /\ net' = Take(net, s)
    /\ lastEvent' = "other"
    /\ UNCHANGED <<offerVars, threadVars, pageVars, notifLoading, srvNotifs,
                   authError, notifications, user, authLoading, pathname, intervals,
                   unreadCount, srvValid, srvUnread, origin>>

\* ======================================================== AuthContext ====
\* lines 44-45, 54
CheckAuthOk ==
  \E s \in net :
    /\ s.kind = "getMe" /\ s.status = 200
    /\ setUser(s.user, Take(net, s), lsToken)
    /\ authLoading' = FALSE
    /\ origin' = "checkAuth"
    /\ lastEvent' = "other"
    /\ UNCHANGED <<offerVars, threadVars, pageVars, notifLoading, srvNotifs,
                   authError, lsToken, lsUser, pathname, pendingNav,
                   redirects, srvValid, srvUnread>>

\* lines 46-54, after the response interceptor
CheckAuthFail ==
  \E s \in net :
    /\ s.kind = "getMe" /\ s.status # 200
    /\ lsToken' = "none"
    /\ lsUser' = NoUser
    /\ Redirect(s.status)
    /\ authLoading' = FALSE
    /\ net' = Take(net, s)
    /\ lastEvent' = "other"
    /\ UNCHANGED <<offerVars, threadVars, pageVars, notifLoading, srvNotifs,
                   authError, notifications, user, pathname, intervals, unreadCount,
                   srvValid, srvUnread, origin>>

\* a session was established and ended since the page was loaded
LoggedOutBefore == user = NoUser /\ origin # "none"

\* AuthContext lines 65-66, 88-89, 141-142: setError(null) and the call
authSubmit(k) ==
  /\ HasFree
  /\ authError' = "none"
  /\ \E a \in LoginAnswers(k, AuthHeader) :
       /\ net' = Put(net, a)
       /\ srvValid' = (srvValid \/ a.status = 200)
  /\ lastEvent' = "other"
  /\ UNCHANGED <<offerVars, threadVars, pageVars, notifLoading, srvNotifs,
                 notifications, user, authLoading, lsToken, lsUser, pathname,
                 pendingNav, redirects, intervals, unreadCount, srvUnread,
                 origin>>

\* Register page lines 68, AuthContext lines 63-66
RegisterSubmit ==
  /\ pathname # "/login"
  /\ authSubmit("register")

\* AuthCallback.jsx lines 31-57, AuthContext lines 139-142
SocialLoginSubmit ==
  /\ pathname # "/login"
  /\ authSubmit("socialLogin")

\* Login.jsx lines 57-69, AuthContext lines 86-89
LoginSubmit ==
  /\ pathname = "/login"
  /\ authSubmit("login")

\* AuthContext lines 69-75, 92-98, 145-151; Login.jsx lines 71-74, Register
\* page line 71, AuthCallback.jsx lines 59-61
LoginOk ==
  \E s \in net :
    /\ s.kind \in LoginKinds /\ s.status = 200
    /\ lsToken' = "tok"
    /\ lsUser' = s.user
    /\ setUser(s.user, Take(net, s), "tok")
    /\ pathname' = "/app"
    /\ origin' = "login"
    /\ lastEvent' = IF LoggedOutBefore THEN "reloginOk" ELSE "loginOk"
    /\ formLoading' = FALSE
    /\ UNCHANGED <<offerVars, threadVars, profileVars, listVars, formKind,
                   formData, formError, notifLoading, srvNotifs,
                   authError, authLoading, pendingNav, redirects, srvValid,
                   srvUnread>>

\* the fixed message of each operation
DefaultMessage(k) == CASE k = "register" -> "Registration failed"
                       [] k = "login" -> "Login failed"
                       [] OTHER -> "Social login failed"

\* a failure result that always carries the fixed message
ErrorMessage_Fixed(s) == DefaultMessage(s.kind)

\* lines 77, 100, 152: err.response?.data?.message || '... failed'
ErrorMessage(s) == IF s.text # "" THEN s.text ELSE DefaultMessage(s.kind)

\* AuthContext lines 76-80, 99-103, 151-155, after the response
\* interceptor; AuthCallback.jsx lines 62-64 goes to the login page; the
\* Register page lines 72-76 and Login.jsx lines 75-79 show the message
LoginFail ==
  \E s \in net :
    /\ s.kind \in LoginKinds /\ s.status # 200
    /\ lsToken' = Intercept401(s.status, lsToken)
    /\ lsUser' = InterceptUser(s.status, lsUser)
    /\ Redirect(s.status)
    /\ authError' = ErrorMessage(s)
    /\ pathname' = IF s.kind = "socialLogin" THEN "/login" ELSE pathname
    /\ formError' = IF formKind \in {"register", "login"}
                    THEN ErrorMessage(s) ELSE formError
    /\ formLoading' = FALSE
    /\ net' = Take(net, s)
    /\ lastEvent' = "other"
    /\ UNCHANGED <<offerVars, threadVars, profileVars, listVars, formKind,
                   formData, notifLoading, srvNotifs,
                   notifications, user, authLoading, intervals,
                   unreadCount, srvValid, srvUnread, origin>>

\* Navbar.jsx lines 36-37, 215, AuthContext lines 109-112
LogoutClick ==
  /\ IsAuthenticated
  /\ HasFree
  /\ \E a \in AuthAnswers("logout", AuthHeader) : net' = Put(net, a)
  /\ lastEvent' = "other"
  /\ UNCHANGED <<offerVars, sessionVars, notifVars, threadVars, pageVars>>

\* a logout that gives up when the server call fails
logoutProceeds_OnlyOnSuccess(st) == st = 200

\* lines 110-116: the failure of the server call is caught and ignored
logoutProceeds(st) == TRUE

\* AuthContext lines 113-123 after the response interceptor, Navbar line 38
LogoutDone ==
  \E s \in net :
    /\ s.kind = "logout"
    /\ Redirect(s.status)
    /\ IF logoutProceeds(s.status)
       THEN /\ lsToken' = "none"
            /\ lsUser' = NoUser
            /\ setUser(NoUser, Take(net, s), "none")
       ELSE /\ lsToken' = Intercept401(s.status, lsToken)
            /\ lsUser' = InterceptUser(s.status, lsUser)
            /\ setUser(user, Take(net, s), lsToken)
    /\ pathname' = "/app"
    /\ lastEvent' = IF s.status = 200 THEN "logoutOk" ELSE "logoutFailed"
    /\ UNCHANGED <<offerVars, threadVars, pageVars, notifLoading, srvNotifs,
                   authError, authLoading, srvValid, srvUnread, origin>>

\* client-side navigation between the login page and any other page
Navigate ==
  /\ pathname' = IF pathname = "/login" THEN "/app" ELSE "/login"
  /\ lastEvent' = "other"
  /\ UNCHANGED <<offerVars, threadVars, pageVars, notifLoading, srvNotifs,
                   authError, notifications, user, authLoading, lsToken, lsUser, pendingNav,
                 redirects, intervals, unreadCount, srvValid, srvUnread, origin, net>>

\* AuthContext lines 36-58: checkAuth on mount, as the network it leaves
CheckAuthNet(tok, u) ==
  IF tok # "none" /\ u # NoUser
  THEN {Put({}, a) : a \in AuthAnswers("getMe", tok)}
  ELSE {{}}

\* the navigation that api.js line 65 started loads /login: the page is torn
\* down (intervals and pending responses go with it) and the app mounts anew
NavigationCommit ==
  /\ pendingNav
  /\ pathname' = "/login"
  /\ pendingNav' = FALSE
  /\ redirects' = 0
  /\ user' = NoUser
  /\ authError' = "none"
  /\ intervals' = 0
  /\ unreadCount' = 0
  /\ notifications' = <<>>
  /\ notifLoading' = FALSE
  /\ net' \in CheckAuthNet(lsToken, lsUser)
  /\ authLoading' = (net' # {})
  /\ origin' = "none"
  /\ lastEvent' = "reload"
  /\ UNCHANGED <<offerVars, threadVars, pageVars, srvNotifs,
                   lsToken, lsUser, srvValid, srvUnread>>

\* ------------------------------------------------------------- environment
\* the token expires or is revoked
TokenExpires ==
  /\ srvValid /\ lsToken # "none"
  /\ srvValid' = FALSE
  /\ lastEvent' = "other"
  /\ UNCHANGED <<offerVars, threadVars, pageVars, notifLoading, srvNotifs,
                   authError, notifications, user, authLoading, lsToken, lsUser, pathname,
                 pendingNav, redirects, intervals, unreadCount, srvUnread, origin, net>>

\* the page has loaded, with or without a stored session, and the providers
\* have mounted
InitSession ==
  /\ id = 1 /\ offer = NoOffer /\ loading = TRUE /\ error = FALSE
  /\ showResponseForm = "none" /\ responseMessage = "" /\ responding = FALSE
  /\ srvOffers = InitialOffers
  /\ user = NoUser
  /\ \E stored \in BOOLEAN :
       /\ lsToken = IF stored THEN "tok" ELSE "none"
       /\ lsUser = IF stored THEN UserRec("u1") ELSE NoUser
  /\ pathname \in {"/login", "/app"}
  /\ pendingNav = FALSE /\ redirects = 0
  /\ authError = "none"
  /\ intervals = 0 /\ unreadCount = 0
  /\ notifications = <<>> /\ notifLoading = FALSE
  /\ srvValid \in BOOLEAN /\ srvUnread = 0
  /\ srvNotifs = [i \in NotifIds |-> "read"]
  /\ ThreadAtRest
  /\ ProfileAtRest /\ FormsAtRest /\ ListsAtRest
  /\ net \in CheckAuthNet(lsToken, lsUser)
  /\ authLoading = (net # {})
  /\ origin = "none"
  /\ lastEvent = "other"

NextSession ==
  \/ CheckAuthOk
  \/ CheckAuthFail
  \/ LoginSubmit
  \/ LoginOk
  \/ LoginFail
  \/ LogoutClick
  \/ LogoutDone
  \/ Navigate
  \/ NavigationCommit
  \/ Tick
  \/ UnreadCountOk
  \/ UnreadCountFail
  \/ TokenExpires

SpecSession == InitSession /\ [][NextSession]_vars

\* the three ways to establish a session, without timer ticks, logout and
\* token expiry: a session ends only with the page
NextAuth ==
  \/ CheckAuthOk
  \/ CheckAuthFail
  \/ LoginSubmit
  \/ RegisterSubmit
  \/ SocialLoginSubmit
  \/ LoginOk
  \/ LoginFail
  \/ Navigate
  \/ NavigationCommit
  \/ UnreadCountOk
  \/ UnreadCountFail

\* the page has loaded without a stored session
InitAuth == InitSession /\ lsToken = "none" /\ srvValid

SpecAuth == InitAuth /\ [][NextAuth]_vars

\* ======================================= NotificationContext, the store ====
Max(a, b) == IF a >= b THEN a ELSE b

\* what the session side keeps while the store works
authVars == <<user, authLoading, authError, lsToken, lsUser, pathname,
              pendingNav, redirects, intervals, srvValid, origin>>

\* ------------------------------------------------- backend, notifications
\* the unread notifications of the user
SrvUnread(sn) == Cardinality({i \in NotifIds : sn[i] = "unread"})

\* the user's notifications as GET /notifications lists them
RECURSIVE ListFrom(_, _)
ListFrom(sn, i) ==
  IF i \notin NotifIds THEN <<>>
  ELSE (IF sn[i] = "absent" THEN <<>>
        ELSE <<[_id |-> i, read |-> (sn[i] = "read")]>>)
       \o ListFrom(sn, i + 1)
SrvList(sn) == ListFrom(sn, 1)

\* GET /notifications, PUT /notifications/:id/read,
\* PUT /notifications/mark-all-read: 401 without a valid token, otherwise
\* the answer or a failure.  Each answer is the response and the
\* notifications the backend holds afterwards.
NotifAnswers(k, i, tok) ==
  LET m == Req(k, i, "", tok)
      one == [srvNotifs EXCEPT ![i] = "read"]
      all == [j \in NotifIds |->
                IF srvNotifs[j] = "unread" THEN "read" ELSE srvNotifs[j]]
  IN  IF ~(tok = "tok" /\ srvValid)
      THEN {[resp |-> Resp(m, 401, NoOffer), notifs |-> srvNotifs]}
      ELSE {[resp |-> Resp(m, 500, NoOffer), notifs |-> srvNotifs]} \cup
           CASE k = "getAll" ->
                  {[resp |-> [Resp(m, 200, NoOffer) EXCEPT
                                !.list = SrvList(srvNotifs)],
                    notifs |-> srvNotifs]}
             [] k = "markAsRead" ->
                  {[resp |-> Resp(m, 200, NoOffer), notifs |-> one]}
             [] OTHER ->
                  {[resp |-> Resp(m, 200, NoOffer), notifs |-> all]}

\* dispatch of a notification request
CallNotifAPI(k, i) ==
  /\ HasFree
  /\ \E a \in NotifAnswers(k, i, AuthHeader) :
       /\ net' = Put(net, a.resp)
       /\ srvNotifs' = a.notifs
       /\ srvUnread' = SrvUnread(a.notifs)

\* ------------------------------------------------------------ the store
\* Navbar.jsx lines 53-56, 131; NotificationContext lines 51-56
fetchNotifications ==
  /\ IsAuthenticated
  /\ notifLoading' = TRUE
  /\ CallNotifAPI("getAll", 0)
  /\ lastEvent' = "other"
  /\ UNCHANGED <<offerVars, threadVars, pageVars, authVars, unreadCount,
                 notifications>>

\* lines 56-57, 60-61: the response is applied whatever the session is by
\* then
FetchNotificationsOk ==
  \E s \in net :
    /\ s.kind = "getAll" /\ s.status = 200
    /\ notifications' = s.list
    /\ notifLoading' = FALSE
    /\ net' = Take(net, s)
    /\ lastEvent' = "other"
    /\ UNCHANGED <<offerVars, threadVars, pageVars, authVars, unreadCount, srvUnread,
                   srvNotifs>>

\* lines 58-61, after the response interceptor
FetchNotificationsFail ==
  \E s \in net :
    /\ s.kind = "getAll" /\ s.status # 200
    /\ notifLoading' = FALSE
    /\ lsToken' = Intercept401(s.status, lsToken)
    /\ lsUser' = InterceptUser(s.status, lsUser)
    /\ Redirect(s.status)
    /\ net' = Take(net, s)
    /\ lastEvent' = "other"
    /\ UNCHANGED <<offerVars, threadVars, pageVars, user, authLoading, authError,
                   pathname, intervals, srvValid, origin, unreadCount,
                   srvUnread, notifications, srvNotifs>>

\* a decrement without a floor
CountAfterMarkRead_Unclamped(c) == c - 1

\* line 73: setUnreadCount((prev) => Math.max(0, prev - 1))
CountAfterMarkRead(c) == Max(0, c - 1)

\* lines 70-72: the item with that id gets read: true
MarkedRead(ns, i) ==
  [k \in 1..Len(ns) |->
     IF ns[k]._id = i THEN [ns[k] EXCEPT !.read = TRUE] ELSE ns[k]]

\* Navbar.jsx lines 61-66, 166 (an unread item of the open list is
\* clicked); NotificationContext lines 67-75
markAsRead ==
  \E i \in NotifIds :
    /\ IsAuthenticated /\ ~notifLoading
    /\ \E k \in 1..Len(notifications) :
         notifications[k]._id = i /\ ~notifications[k].read
    /\ notifications' = MarkedRead(notifications, i)
    /\ unreadCount' = CountAfterMarkRead(unreadCount)
    /\ CallNotifAPI("markAsRead", i)
    /\ lastEvent' = "markAsRead"
    /\ UNCHANGED <<offerVars, threadVars, pageVars, authVars, notifLoading>>

\* a bulk form that takes one off the count
CountAfterMarkAll_Decrement(c) == c - 1

\* line 87: setUnreadCount(0)
CountAfterMarkAll(c) == 0

\* line 86
AllMarkedRead(ns) == [k \in 1..Len(ns) |-> [ns[k] EXCEPT !.read = TRUE]]

\* Navbar.jsx lines 146-153 (the button is there while the count is
\* positive); NotificationContext lines 83-89
markAllAsRead ==
  /\ IsAuthenticated /\ unreadCount > 0
  /\ notifications' = AllMarkedRead(notifications)
  /\ unreadCount' = CountAfterMarkAll(unreadCount)
  /\ CallNotifAPI("markAllAsRead", 0)
  /\ lastEvent' = "markAllAsRead"
  /\ UNCHANGED <<offerVars, threadVars, pageVars, authVars, notifLoading>>

\* lines 75, 89: the call has succeeded, nothing more is done
MarkReadOk ==
  \E s \in net :
    /\ s.kind \in {"markAsRead", "markAllAsRead"} /\ s.status = 200
    /\ net' = Take(net, s)
    /\ lastEvent' = "other"
    /\ UNCHANGED <<offerVars, threadVars, pageVars, authVars, notifVars, unreadCount,
                   srvUnread>>

\* a store that takes the optimistic decrement back
CountAfterMarkFailure_RolledBack(c, s) ==
  IF s.kind = "markAsRead" THEN c + 1 ELSE c

\* lines 76-79, 90-92: the failure is logged
CountAfterMarkFailure(c, s) == c

\* lines 76-79, 90-92, after the response interceptor
MarkReadFail ==
  \E s \in net :
    /\ s.kind \in {"markAsRead", "markAllAsRead"} /\ s.status # 200
    /\ unreadCount' = CountAfterMarkFailure(unreadCount, s)
    /\ lsToken' = Intercept401(s.status, lsToken)
    /\ lsUser' = InterceptUser(s.status, lsUser)
    /\ Redirect(s.status)
    /\ net' = Take(net, s)
    /\ lastEvent' = "markFailed"
    /\ UNCHANGED <<offerVars, threadVars, pageVars, user, authLoading, authError,
                   pathname, intervals, srvValid, origin, srvUnread,
                   notifVars>>

\* the backend creates a notification for the user
NotificationArrives ==
  \E i \in NotifIds :
    /\ srvNotifs[i] = "absent"
    /\ srvNotifs' = [srvNotifs EXCEPT ![i] = "unread"]
    /\ srvUnread' = SrvUnread(srvNotifs')
    /\ lastEvent' = "srvChange"
    /\ UNCHANGED <<offerVars, threadVars, pageVars, authVars, unreadCount,
                   notifications, notifLoading, net>>

\* no OfferDetails is mounted
OfferAtRest ==
  /\ id = 1 /\ offer = NoOffer /\ loading = TRUE /\ error = FALSE
  /\ showResponseForm = "none" /\ responseMessage = "" /\ responding = FALSE
  /\ srvOffers = InitialOffers

\* the user has just logged in: the polling effect has created the interval
\* and dispatched the first fetch (lines 96-111)
InitNotif ==
  /\ OfferAtRest
  /\ ThreadAtRest
  /\ ProfileAtRest /\ FormsAtRest /\ ListsAtRest
  /\ user = UserRec("u1") /\ authLoading = FALSE /\ authError = "none"
  /\ lsToken = "tok" /\ lsUser = UserRec("u1")
  /\ pathname = "/app" /\ pendingNav = FALSE /\ redirects = 0
  /\ intervals = 1 /\ unreadCount = 0
  /\ notifications = <<>> /\ notifLoading = FALSE
  /\ srvValid = TRUE
  /\ srvNotifs \in [NotifIds -> {"absent", "unread", "read"}]
  /\ srvUnread = SrvUnread(srvNotifs)
  /\ net \in {Put({}, a) : a \in AuthAnswers("unreadCount", "tok")}
  /\ origin = "login"
  /\ lastEvent = "other"

NextNotif ==
  \/ Tick
  \/ UnreadCountOk
  \/ UnreadCountFail
  \/ fetchNotifications
  \/ FetchNotificationsOk
  \/ FetchNotificationsFail
  \/ markAsRead
  \/ markAllAsRead
  \/ MarkReadOk
  \/ MarkReadFail
  \/ NotificationArrives
  \/ LogoutClick
  \/ LogoutDone

SpecNotif == InitNotif /\ [][NextNotif]_vars

\* the store of a user whose notifications are all unread at first, without
\* logout and without new notifications
InitNotifLive == InitNotif /\ srvNotifs = [i \in NotifIds |-> "unread"]

NextNotifLive ==
  \/ Tick
  \/ UnreadCountOk
  \/ UnreadCountFail
  \/ fetchNotifications
  \/ FetchNotificationsOk
  \/ FetchNotificationsFail
  \/ markAsRead
  \/ markAllAsRead
  \/ MarkReadOk
  \/ MarkReadFail

\* the arrival of a response other than a successful poll
Deliver ==
  \/ UnreadCountFail
  \/ FetchNotificationsOk
  \/ FetchNotificationsFail
  \/ MarkReadOk
  \/ MarkReadFail

\* the interval timer fires again and again (line 107), however many
\* requests are unanswered; every poll response arrives, and responses keep
\* arriving while some are outstanding
SpecNotifLive ==
  /\ InitNotifLive /\ [][NextNotifLive]_vars
  /\ SF_vars(Tick)
  /\ WF_vars(UnreadCountOk)
  /\ WF_vars(Deliver)

\* ================================= OfferDetails.jsx, the message thread ====
\* ------------------------------------------------------ backend, messages
\* the thread of the viewed offer holds the messages 1..srvMessages
ThreadList(k) == [i \in 1..k |-> i]

\* GET /messages/offer/:id, POST /messages, PUT /messages/offer/:id/read:
\* the answer or a failure; a message that is sent gets the next identity.
\* Each answer is the response and the number of messages the backend holds
\* afterwards.
MessageAnswers(m) ==
  {[resp |-> Resp(m, 500, NoOffer), msgs |-> srvMessages]} \cup
  CASE m.kind = "getForOffer" ->
         {[resp |-> [Resp(m, 200, NoOffer) EXCEPT
                       !.list = ThreadList(srvMessages)],
           msgs |-> srvMessages]}
    [] m.kind = "send" ->
         {[resp |-> [Resp(m, 200, NoOffer) EXCEPT !.count = srvMessages + 1],
           msgs |-> srvMessages + 1]}
    [] OTHER ->
         {[resp |-> Resp(m, 200, NoOffer), msgs |-> srvMessages]}

\* ------------------------------------------------------------ the thread
\* lines 68-84: the effect on [offer, id] runs after every setOffer, the
\* offer being a new object each time; nw is the network the handler leaves
fetchMessages(nw) ==
  IF offer' = NoOffer
  THEN net' = nw
  ELSE \E a \in MessageAnswers(Req("getForOffer", id, "", AuthHeader)) :
         net' = Put(nw, a.resp)

\* lines 55-56 and the effect of lines 68-84
FetchOfferOkThread ==
  \E s \in net :
    /\ OfferLoaded(s)
    /\ fetchMessages(Take(net, s))

\* lines 138-139 and the effect of lines 68-84
CancelOkThread ==
  \E s \in net :
    /\ OfferCancelled(s)
    /\ fetchMessages(Take(net, s))

\* lines 73-76: the thread arrives and the mark-read call goes out
MessagesOk ==
  \E s \in net :
    /\ s.kind = "getForOffer" /\ s.status = 200
    /\ messages' = s.list
    /\ \E a \in MessageAnswers(Req("markRead", id, "", AuthHeader)) :
         net' = Put(Take(net, s), a.resp)
    /\ markReads' = Min(markReads + 1, MaxMarkReads)
    /\ lastEvent' = "other"
    /\ UNCHANGED <<offerVars, sessionVars, notifVars, newMessage,
                   sendingMessage, srvMessages,
                 pageVars>>

\* lines 77-79
MessagesFail ==
  \E s \in net :
    /\ s.kind = "getForOffer" /\ s.status # 200
    /\ net' = Take(net, s)
    /\ lastEvent' = "other"
    /\ UNCHANGED <<offerVars, sessionVars, notifVars, threadVars, pageVars>>

\* lines 76-79: the answer to the mark-read call, whatever it is
MarkReadDone ==
  \E s \in net :
    /\ s.kind = "markRead"
    /\ net' = Take(net, s)
    /\ lastEvent' = "other"
    /\ UNCHANGED <<offerVars, sessionVars, notifVars, threadVars, pageVars>>

\* line 362
TypeNewMessage ==
  \E t \in Texts \ {newMessage} :
    /\ MainRender
    /\ newMessage' = t
    /\ lastEvent' = "other"
    /\ UNCHANGED <<offerVars, sessionVars, notifVars, messages,
                   sendingMessage, srvMessages, markReads, net,
                 pageVars>>

\* lines 91-100, 369: the thread is not touched before the answer
handleSendMessage ==
  /\ MainRender
  /\ ~sendingMessage /\ newMessage # ""
  /\ srvMessages < MaxMessages
  /\ HasFree
  /\ sendingMessage' = TRUE
  /\ \E a \in MessageAnswers(Req("send", id, newMessage, AuthHeader)) :
       /\ net' = Put(net, a.resp)
       /\ srvMessages' = a.msgs
  /\ lastEvent' = "other"
  /\ UNCHANGED <<offerVars, sessionVars, notifVars, messages, newMessage,
                 markReads,
                 pageVars>>

\* lines 101-103, 107
SendOk ==
  \E s \in net :
    /\ s.kind = "send" /\ s.status = 200
    /\ messages' = Append(messages, s.count)
    /\ newMessage' = ""
    /\ sendingMessage' = FALSE
    /\ net' = Take(net, s)
    /\ lastEvent' = "sendOk"
    /\ UNCHANGED <<offerVars, sessionVars, notifVars, srvMessages,
                   markReads,
                 pageVars>>

\* a view that keeps a locally constructed message when the send fails
MessagesAfterSendFailure_Kept(ms) == Append(ms, 0)

\* lines 104-106: the failure only toasts
MessagesAfterSendFailure(ms) == ms

\* lines 104-107: showToast('Failed to send message', 'error')
SendFail ==
  \E s \in net :
    /\ s.kind = "send" /\ s.status # 200
    /\ messages' = MessagesAfterSendFailure(messages)
    /\ sendingMessage' = FALSE
    /\ net' = Take(net, s)
    /\ lastEvent' = "toastSendFailed"
    /\ UNCHANGED <<offerVars, sessionVars, notifVars, newMessage,
                   srvMessages, markReads,
                 pageVars>>

\* the other party writes into the thread
OtherPartySends ==
  /\ srvMessages < MaxMessages
  /\ srvMessages' = srvMessages + 1
  /\ lastEvent' = "other"
  /\ UNCHANGED <<offerVars, sessionVars, notifVars, messages, newMessage,
                 sendingMessage, markReads, net,
                 pageVars>>

\* the buyer of offer 1 has entered the view of offer 1
InitThread == InitOffer /\ id = 1 /\ user = UserRec("u1")

NextThread ==
  \/ FetchOfferOkThread
  \/ FetchOfferFail
  \/ handleCancel
  \/ CancelOkThread
  \/ CancelFail
  \/ MessagesOk
  \/ MessagesFail
  \/ MarkReadDone
  \/ TypeNewMessage
  \/ handleSendMessage
  \/ SendOk
  \/ SendFail
  \/ OtherPartySends

SpecThread == InitThread /\ [][NextThread]_vars

\* ============================================ properties of the offer view
\* an accept or decline control is on screen: the two buttons, or the form
\* with its Confirm button
AcceptDeclineOffered == RespondButtonsShown \/ ResponseFormShown
CancelOffered == CancelButtonShown
\* the responses that the step delivers to the view
Delivered == net \ net'
\* the requests that the step dispatches
Dispatched == net' \ net

\* C1: whenever an offer is loaded and displayed, accept and decline are
\* offered exactly when the offer is pending and the viewer is its seller,
\* cancel exactly when it is pending and the viewer is its buyer, and nothing
\* is offered for a terminal status or when nobody is logged in.
C1_RoleActionSet ==
  MainRender =>
    /\ AcceptDeclineOffered <=> (offer.status = "pending" /\ isSeller)
    /\ CancelOffered <=> (offer.status = "pending" /\ isBuyer)
    /\ (offer.status \in Terminal \/ user = NoUser) =>
          (~AcceptDeclineOffered /\ ~CancelOffered)

\* C2: while the displayed offer has a terminal status, no step dispatches an
\* accept, decline or cancel request.
C2_NoRequestOnceTerminal ==
  [][offer.status \in Terminal =>
       ~(\E m \in Dispatched : m.kind \in TransitionKinds)]_vars

\* the buyer has cancelled from the view and the view shows the result
C2_Witness ==
  /\ MainRender /\ isBuyer
  /\ lastEvent = "transitionOk" /\ offer.status = "cancelled"

\* C3: the status displayed for one offer never changes once it is terminal.
C3_StatusMonotonic ==
  [][(offer # NoOffer /\ offer'._id = offer._id /\ offer.status \in Terminal)
       => offer'.status = offer.status]_vars

\* C4: a successful accept, decline or cancel response replaces the local
\* offer by the representation in the response, and when that is not pending
\* no accept, decline or cancel control is offered afterwards.
C4_ServerRepresentation ==
  [][\A m \in Delivered :
       (m.kind \in TransitionKinds /\ m.status = 200) =>
          /\ offer' = m.offer
          /\ m.offer.status # "pending" =>
                (~AcceptDeclineOffered' /\ ~CancelOffered')]_vars

\* the seller accepted with a message and the view shows the server's offer
C4_Witness ==
  /\ lastEvent = "transitionOk" /\ isSeller
  /\ offer.status = "accepted" /\ offer.responseMessage = "ok"

\* C5: when an accept, decline or cancel of the displayed offer is refused
\* because the offer is no longer pending, the view shows the server's status
\* afterwards and offers no transition on it.
C5_TakesOverServerStatus ==
  [][\A m \in Delivered :
       (m.kind \in TransitionKinds /\ m.status = 409 /\ offer._id = m.oid) =>
          /\ offer'.status = srvOffers[m.oid].status
          /\ ~AcceptDeclineOffered' /\ ~CancelOffered']_vars


\* ========================================== properties of the session side
\* C6: when a logout has finished, whether its server call succeeded or
\* failed, the current user is null and neither the token nor the user is in
\* storage.
C6_LogoutClearsSession ==
  lastEvent \in {"logoutOk", "logoutFailed"} =>
    /\ user = NoUser /\ ~IsAuthenticated
    /\ lsToken = "none" /\ lsUser = NoUser

\* a session established by login was ended by a logout whose server call
\* failed
C6_Witness ==
  /\ lastEvent = "logoutFailed" /\ origin = "login"
  /\ user = NoUser /\ lsToken = "none"

\* C7: whenever a response with status 401 is delivered, the stored token and
\* user are removed and the current user becomes null, on any page.
C7_TeardownOn401 ==
  [][\A m \in Delivered :
       (m.status = 401 /\ lastEvent' # "reload") =>
          /\ lsToken' = "none" /\ lsUser' = NoUser
          /\ user' = NoUser]_vars

\* C8: between two page loads the gateway redirects to the login page at
\* most once, however many 401 responses arrive, and never while the location
\* is the login page.
C8_RedirectOnce ==
  [][lastEvent' # "reload" =>
       /\ redirects' <= 1
       /\ pathname = "/login" => redirects' = redirects]_vars

\* C9: exactly one polling interval exists while the user is authenticated
\* and none otherwise.
C9_OneInterval ==
  intervals = IF IsAuthenticated THEN 1 ELSE 0

\* the user has logged in again after a logout and one interval runs
C9_Witness ==
  /\ lastEvent = "reloginOk"
  /\ IsAuthenticated /\ intervals = 1

\* C10: the poller starts when authentication becomes true and stops when it
\* becomes false; entering polling dispatches one unread-count request in the
\* same step, every tick dispatches one, and no unread-count request is
\* dispatched by a step that leaves the poller stopped.
C10_PollerLifecycle ==
  [][LET fetches == {m \in Dispatched : m.kind = "unreadCount"}
     IN  /\ (~IsAuthenticated /\ IsAuthenticated') =>
               (intervals = 0 /\ intervals' = 1 /\ Cardinality(fetches) = 1)
         /\ (IsAuthenticated /\ ~IsAuthenticated') => intervals' = 0
         /\ (IsAuthenticated <=> IsAuthenticated') =>
               intervals' = intervals
         /\ lastEvent' = "tick" => Cardinality(fetches) = 1
         /\ fetches # {} => (IsAuthenticated' /\ intervals' = 1)]_vars

\* a tick of a session established by login has dispatched its fetch
C10_Witness ==
  /\ lastEvent = "tick" /\ origin = "login" /\ intervals = 1
  /\ \E m \in net : m.kind = "unreadCount"

\* C16: a failed login, register or social login returns the server's
\* message, or the fixed message of the operation when the server sent none,
\* and establishes no session: the current user is what it was and nothing is
\* written to storage.
C16_FailureEstablishesNothing ==
  [][\A m \in Delivered :
       (m.kind \in LoginKinds /\ m.status # 200 /\ lastEvent' # "reload") =>
          /\ authError' = IF m.text # "" THEN m.text
                          ELSE DefaultMessage(m.kind)
          /\ user' = user
          /\ lsToken' \in {lsToken, "none"}
          /\ lsUser' \in {lsUser, NoUser}]_vars

\* a registration failed without a message from the server and nobody is
\* logged in
C16_Witness ==
  /\ authError = "Registration failed"
  /\ user = NoUser /\ lsToken = "none" /\ lsUser = NoUser

\* C17: every request carries the token that is in storage when it is
\* dispatched, and none when storage holds none.
C17_BearerIsStoredToken ==
  [][\A m \in Dispatched : m.auth = lsToken']_vars

\* after a session was ended, a login request has gone out without a token
C17_Witness ==
  /\ LoggedOutBefore /\ lsToken = "none"
  /\ \E m \in net : m.kind = "login" /\ m.auth = "none"

\* ================================= properties of the notification store
\* a step that invokes markAsRead(i) delivers no response, sets the read flag
\* of item i, leaves every other item as it was and makes the count cnt
OptimisticMark(cnt) ==
  \A m \in Dispatched :
    m.kind = "markAsRead" =>
      /\ Delivered = {}
      /\ Len(notifications') = Len(notifications)
      /\ \E k \in 1..Len(notifications) : notifications[k]._id = m.oid
      /\ \A k \in 1..Len(notifications) :
           notifications'[k] =
             IF notifications[k]._id = m.oid
             THEN [notifications[k] EXCEPT !.read = TRUE]
             ELSE notifications[k]
      /\ unreadCount' = cnt

\* C11: markAsRead(id) applies its mutation before any response is observed:
\* the item with that id becomes read, no other item changes, and the unread
\* count goes down by one.
C11_DecrementsByOne == [][OptimisticMark(unreadCount - 1)]_vars

\* C11, with the floor the count has: the unread count goes down by one
\* unless it is 0 already, and then it stays 0.
C11_DecrementsToFloor ==
  [][OptimisticMark(IF unreadCount = 0 THEN 0 ELSE unreadCount - 1)]_vars

\* the first of two unread items was marked: it is read, the other is not,
\* the count went from 2 to 1 and the call is still unanswered
C11_Witness ==
  /\ lastEvent = "markAsRead" /\ unreadCount = 1
  /\ Len(notifications) = 2
  /\ notifications[1].read /\ ~notifications[2].read
  /\ \E m \in net : m.kind = "markAsRead" /\ m.oid = notifications[1]._id

\* C12: the failure of a markAsRead call changes neither the unread count nor
\* the list: the optimistic mutation stays.
C12_NoRollback ==
  [][\A m \in Delivered :
       (m.kind = "markAsRead" /\ m.status # 200) =>
          /\ unreadCount' = unreadCount
          /\ notifications' = notifications]_vars

\* a mark has failed: the item is read here and unread on the server, and the
\* count is one below the server's
C12_Witness ==
  /\ lastEvent = "markFailed" /\ IsAuthenticated
  /\ unreadCount = 1 /\ srvUnread = 2
  /\ \E k \in 1..Len(notifications) :
       notifications[k].read /\ srvNotifs[notifications[k]._id] = "unread"

\* C13: after every call of markAllAsRead the unread count is 0 and every
\* item of the list is read.
C13_MarkAllIdempotent ==
  lastEvent = "markAllAsRead" =>
    /\ unreadCount = 0
    /\ \A k \in 1..Len(notifications) : notifications[k].read

\* markAllAsRead was called a second time while the first call is unanswered
\* and fails
C13_Witness ==
  /\ lastEvent = "markAllAsRead" /\ unreadCount = 0
  /\ Cardinality({m \in net : m.kind = "markAllAsRead"}) = 2
  /\ \E m \in net : m.kind = "markAllAsRead" /\ m.status # 200
  /\ notifications # <<>>

\* C14: while nobody is logged in the unread count is 0 and the list is
\* empty, whatever responses arrive.
C14_LateResponseDiscarded ==
  ~IsAuthenticated => (unreadCount = 0 /\ notifications = <<>>)

\* something other than a successful poll is going on: a mark-read call was
\* just made, the server's notifications just changed, a poll is failing, or
\* the user is logged out
Disturbed ==
  \/ ~IsAuthenticated
  \/ lastEvent \in {"markAsRead", "markAllAsRead", "srvChange"}
  \/ \E m \in net : m.kind = "unreadCount" /\ m.status # 200

\* C15: whenever the local unread count differs from the server's, it equals
\* the server's again later, unless the user logs out, a poll fails or a
\* further change is made.
C15_PollReconciles ==
  (IsAuthenticated /\ unreadCount # srvUnread)
     ~> (unreadCount = srvUnread \/ Disturbed)

\* after a failed mark the poll has put the server's count back: an item is
\* read here and unread on the server, and the counts agree
C15_Witness ==
  /\ IsAuthenticated /\ net = {} /\ lastEvent = "other"
  /\ unreadCount = srvUnread /\ srvUnread > 0
  /\ \E k \in 1..Len(notifications) :
       notifications[k].read /\ srvNotifs[notifications[k]._id] = "unread"

\* ================================== properties of the message thread
\* C18: the mark-thread-read call goes out once per entry of the view,
\* whatever happens while the view stays open.
C18_MarkReadOncePerEntry == markReads <= 1

\* C19: the step that sends a message appends it to the displayed thread, and
\* when the send has succeeded the thread holds the message with the server's
\* identity exactly once.
C19_OptimisticAppend ==
  [][/\ \A m \in Dispatched :
          m.kind = "send" => Len(messages') = Len(messages) + 1
     /\ \A m \in Delivered :
          (m.kind = "send" /\ m.status = 200) =>
             Cardinality({k \in 1..Len(messages') :
                            messages'[k] = m.count}) = 1]_vars

\* C20: when a send fails the failure is shown, the thread is left as it is,
\* the sending flag is cleared and the input keeps what it holds.
C20_SendFailureSurfaced ==
  [][\A m \in Delivered :
       (m.kind = "send" /\ m.status # 200) =>
          /\ lastEvent' = "toastSendFailed"
          /\ messages' = messages
          /\ ~sendingMessage'
          /\ newMessage' = newMessage]_vars

\* a send has failed in a thread that shows a message: the input still holds
\* the text and can be submitted again
C20_Witness ==
  /\ lastEvent = "toastSendFailed"
  /\ MainRender /\ ~sendingMessage /\ newMessage # ""
  /\ messages # <<>>

\* ------------------------------------------------ offer view, continued
\* C24: when an offer has loaded and the logged-in viewer is neither its
\* buyer nor its seller, the view is in its error state.
C24_StrangerSeesError ==
  (offer # NoOffer /\ ~loading /\ user # NoUser /\ ~isBuyer /\ ~isSeller)
    => error

\* C29: once every response has arrived, the offer displayed is the one of
\* the current id; a late response for an earlier id does not overwrite it.
C29_DisplayedIsCurrentId ==
  (net = {} /\ MainRender) => offer._id = id

\* C30: at most one accept, decline or cancel of the displayed offer is in
\* flight at any time.
C30_NoDoubleSubmit ==
  Cardinality({m \in net : m.kind \in TransitionKinds /\ m.oid = id}) <= 1

\* ----------------------------------------------------- thread, continued
\* C28: the displayed thread is append-only: a message that is shown stays
\* shown, whatever the order in which the answers of sends and of thread
\* fetches arrive.
C28_ThreadAppendOnly ==
  [][\A k \in 1..Len(messages) :
       \E j \in 1..Len(messages') : messages'[j] = messages[k]]_vars

\* ---------------------------------------------------- session, continued
\* C23: the stored token, the stored user and the current user change only in
\* steps of the session store's own operations (or when the page is loaded
\* anew); no step of another component writes or removes them.
C23_OnlyStoreWritesSession ==
  [][(lsToken' # lsToken \/ lsUser' # lsUser \/ user' # user) =>
       \/ lastEvent' = "reload"
       \/ \E m \in Delivered : m.kind \in LoginKinds \cup {"getMe", "logout"}]_vars

\* C27: in every reachable state an authenticated user (a non-null current
\* user) comes with a token in storage.
C27_AuthenticatedHasToken == IsAuthenticated => lsToken # "none"

\* ================================================== App.jsx, reloading ====
\* a route guard that looks at the user only
ProtectedRedirects_NoLoadingCheck == ~IsAuthenticated

\* ProtectedRoute lines 49-61: the spinner while loading, then
\* <Navigate to="/login"> unless authenticated
ProtectedRedirects == ~authLoading /\ ~IsAuthenticated

\* the page is loaded with a token and a user in storage
InitReload == InitSession /\ lsToken = "tok"

NextReload ==
  \/ CheckAuthOk
  \/ CheckAuthFail
  \/ Navigate
  \/ NavigationCommit
  \/ Tick
  \/ UnreadCountOk
  \/ UnreadCountFail
  \/ TokenExpires

\* the browser settles every request: the answer to getMe, or its failure,
\* is delivered
SpecReload ==
  /\ InitReload
  /\ [][NextReload]_vars
  /\ WF_vars(CheckAuthOk)
  /\ WF_vars(CheckAuthFail)

\* C25: after a load with a stored token and user, a protected route does not
\* redirect while the initial check is pending; the user becomes
\* authenticated exactly in the step where getMe succeeds; when getMe fails
\* the stored token and user are removed, the user stays null and the route
\* redirects; and the loading flag eventually becomes false.
C25_SessionSurvivesReload ==
  /\ [](authLoading => ~ProtectedRedirects)
  /\ [][/\ (~IsAuthenticated /\ user' # NoUser) <=>
               \E m \in Delivered : m.kind = "getMe" /\ m.status = 200
        /\ (\E m \in Delivered : m.kind = "getMe" /\ m.status # 200) =>
             /\ lsToken' = "none" /\ lsUser' = NoUser
             /\ user' = NoUser /\ ProtectedRedirects']_vars
  /\ (authLoading ~> ~authLoading)

C25_Witness ==
  /\ ~authLoading /\ lsToken = "none" /\ user = NoUser
  /\ origin = "none" /\ lastEvent = "other" /\ ProtectedRedirects

\* ========================================================= Profile.jsx ====
\* { ...u, ...p }: the fields of p override those of u; "-" is a field
\* that the object does not have
Merge(u, p) == [f \in DOMAIN u |-> IF p[f] = "-" THEN u[f] ELSE p[f]]

\* PUT /users/me/profile, POST /users/me/avatar: 401 without a valid token,
\* otherwise a failure or the change; the payload of the answer is the
\* user document or the fields that changed.  The request carries along the
\* user of the render in which its handler was created (Profile line 16,
\* AuthContext line 130).  Each answer is the response and the document the
\* backend holds afterwards.
ProfileAnswers(k, v, tok) ==
  LET m == [Req(k, 0, "", tok) EXCEPT !.closure = user]
      doc == IF k = "updateProfile" THEN [srvUser EXCEPT !.bio = v]
             ELSE [srvUser EXCEPT !.avatar = v]
      fields == IF k = "updateProfile" THEN [NoUser EXCEPT !.bio = v]
                ELSE [NoUser EXCEPT !.avatar = v]
  IN  IF tok = "tok" /\ srvValid
      THEN {[resp |-> [Resp(m, 200, NoOffer) EXCEPT !.user = d],
             doc |-> doc] : d \in {doc, fields}}
           \cup {[resp |-> Resp(m, 500, NoOffer), doc |-> srvUser]}
      ELSE {[resp |-> Resp(m, 401, NoOffer), doc |-> srvUser]}

\* AuthContext lines 129-133: u is the user of the render that created the
\* function
updateUser(u, updatedData, nw) ==
  LET newUser == Merge(u, updatedData)
  IN  /\ setUser(newUser, nw, lsToken)
      /\ lsUser' = newUser

\* App.jsx lines 45-64: the profile page is behind ProtectedRoute
ProfileRendered == ~authLoading /\ IsAuthenticated /\ pathname # "/login"

\* Profile lines 122-128, 302
handleProfileSave ==
  \E b \in {"", "b"} :
    /\ ProfileRendered /\ ~profileSaving
    /\ HasFree
    /\ profileError' = "none"
    /\ profileSaving' = TRUE
    /\ \E a \in ProfileAnswers("updateProfile", b, AuthHeader) :
         /\ net' = Put(net, a.resp)
         /\ srvUser' = a.doc
    /\ lastEvent' = "other"
    /\ UNCHANGED <<offerVars, sessionVars, notifVars, threadVars,
                   avatarUploading, formVars, listVars>>

\* Profile lines 128-131, 135-137
ProfileSaveOk ==
  \E s \in net :
    /\ s.kind = "updateProfile" /\ s.status = 200
    /\ updateUser(s.closure, s.user, Take(net, s))
    /\ profileSaving' = FALSE
    /\ lastEvent' = "profileSaved"
    /\ UNCHANGED <<offerVars, threadVars, notifLoading, srvNotifs,
                   authError, authLoading, lsToken, pathname, pendingNav,
                   redirects, srvValid, srvUnread, origin, avatarUploading,
                   profileError, srvUser, formVars, listVars>>

\* Profile lines 132-137, after the response interceptor
ProfileSaveFail ==
  \E s \in net :
    /\ s.kind = "updateProfile" /\ s.status # 200
    /\ lsToken' = Intercept401(s.status, lsToken)
    /\ lsUser' = InterceptUser(s.status, lsUser)
    /\ Redirect(s.status)
    /\ profileError' = "Failed to update profile"
    /\ profileSaving' = FALSE
    /\ net' = Take(net, s)
    /\ lastEvent' = "other"
    /\ UNCHANGED <<offerVars, threadVars, notifVars, user, authLoading,
                   authError, pathname, intervals, unreadCount, srvValid,
                   srvUnread, origin, avatarUploading, srvUser, formVars,
                   listVars>>

\* Profile lines 78-83, 222
handleAvatarUpload ==
  \E f \in {"a"} :
    /\ ProfileRendered /\ ~avatarUploading
    /\ HasFree
    /\ avatarUploading' = TRUE
    /\ \E a \in ProfileAnswers("uploadAvatar", f, AuthHeader) :
         /\ net' = Put(net, a.resp)
         /\ srvUser' = a.doc
    /\ lastEvent' = "other"
    /\ UNCHANGED <<offerVars, sessionVars, notifVars, threadVars,
                   profileSaving, profileError, formVars, listVars>>

\* Profile lines 83-88, 92-94
AvatarUploadOk ==
  \E s \in net :
    /\ s.kind = "uploadAvatar" /\ s.status = 200
    /\ updateUser(s.closure, s.user, Take(net, s))
    /\ avatarUploading' = FALSE
    /\ lastEvent' = "profileSaved"
    /\ UNCHANGED <<offerVars, threadVars, notifLoading, srvNotifs,
                   authError, authLoading, lsToken, pathname, pendingNav,
                   redirects, srvValid, srvUnread, origin, profileSaving,
                   profileError, srvUser, formVars, listVars>>

\* Profile lines 89-94, after the response interceptor
AvatarUploadFail ==
  \E s \in net :
    /\ s.kind = "uploadAvatar" /\ s.status # 200
    /\ lsToken' = Intercept401(s.status, lsToken)
    /\ lsUser' = InterceptUser(s.status, lsUser)
    /\ Redirect(s.status)
    /\ avatarUploading' = FALSE
    /\ net' = Take(net, s)
    /\ lastEvent' = "other"
    /\ UNCHANGED <<offerVars, threadVars, notifVars, user, authLoading,
                   authError, pathname, intervals, unreadCount, srvValid,
                   srvUnread, origin, profileSaving, profileError, srvUser,
                   formVars, listVars>>

\* a user is logged in and the first poll has been answered
SessionLoggedIn ==
  /\ user = UserRec("u1") /\ authLoading = FALSE /\ authError = "none"
  /\ lsToken = "tok" /\ lsUser = UserRec("u1")
  /\ pathname = "/app" /\ pendingNav = FALSE /\ redirects = 0
  /\ intervals = 1 /\ unreadCount = 0
  /\ notifications = <<>> /\ notifLoading = FALSE
  /\ srvValid = TRUE /\ srvUnread = 0
  /\ srvNotifs = [i \in NotifIds |-> "read"]
  /\ origin = "login"

\* the logged-in user has opened the profile page
InitProfile ==
  /\ OfferAtRest /\ ThreadAtRest /\ SessionLoggedIn
  /\ ProfileAtRest /\ FormsAtRest /\ ListsAtRest
  /\ net = {} /\ lastEvent = "other"

NextProfile ==
  \/ handleProfileSave
  \/ ProfileSaveOk
  \/ ProfileSaveFail
  \/ handleAvatarUpload
  \/ AvatarUploadOk
  \/ AvatarUploadFail
  \/ LogoutClick
  \/ LogoutDone
  \/ NavigationCommit
  \/ Tick
  \/ UnreadCountOk
  \/ UnreadCountFail

SpecProfile == InitProfile /\ [][NextProfile]_vars

\* C22: the step in which updateUser(partial) runs leaves the current user
\* and the stored user equal to the previous current user overridden by the
\* fields of partial, leaves the stored token as it is and starts no fetch
\* of the user.
C22_UpdateUserMerges ==
  [][\A m \in Delivered :
       (m.kind \in {"updateProfile", "uploadAvatar"} /\ m.status = 200) =>
          /\ user' = Merge(user, m.user)
          /\ lsUser' = user'
          /\ lsToken' = lsToken
          /\ \A d \in Dispatched : d.kind # "getMe"]_vars

\* ================= Register page, Login.jsx, Profile.jsx: the forms ====
\* Register lines 51, 56, Profile line 153: the least lengths
MinUsername == 3
MinPassword == 6

\* a string of n characters
Str(c, n) == [i \in 1..n |-> c]

\* what the fields of each form can hold: nothing, one character less than
\* the least length, the least length
FormValues(k) ==
  LET Usernames == {Str("u", n) : n \in {0, MinUsername - 1, MinUsername}}
      Emails == {Str("e", n) : n \in {0, 1}}
      Passwords == {Str("p", n) : n \in {0, MinPassword - 1, MinPassword}}
  IN  CASE k = "register" ->
             [username : Usernames, email : Emails, password : Passwords,
              confirmPassword : Passwords]
        [] k = "login" -> [email : Emails, password : Passwords]
        [] OTHER ->
             [currentPassword : Passwords, newPassword : Passwords,
              confirmPassword : Passwords]

\* Register lines 19-24, Login.jsx lines 34-37, Profile lines 27-31
EmptyForm(k) ==
  CHOOSE f \in FormValues(k) : \A fld \in DOMAIN f : f[fld] = <<>>

\* a register form that does not compare the confirmation
RegisterError_NoMatchCheck(f) ==
  IF f.username = <<>> \/ f.email = <<>> \/ f.password = <<>>
  THEN "Please fill in all fields"
  ELSE IF Len(f.username) < MinUsername
  THEN "Username must be at least 3 characters"
  ELSE IF Len(f.password) < MinPassword
  THEN "Password must be at least 6 characters"
  ELSE "none"

\* Register lines 46-64: the message of the first check that fails
RegisterError(f) ==
  IF f.username = <<>> \/ f.email = <<>> \/ f.password = <<>>
  THEN "Please fill in all fields"
  ELSE IF Len(f.username) < MinUsername
  THEN "Username must be at least 3 characters"
  ELSE IF Len(f.password) < MinPassword
  THEN "Password must be at least 6 characters"
  ELSE IF f.password # f.confirmPassword
  THEN "Passwords do not match"
  ELSE "none"

\* Login.jsx lines 62-65
LoginError(f) ==
  IF f.email = <<>> \/ f.password = <<>>
  THEN "Please fill in all fields" ELSE "none"

\* Profile lines 153-161
PasswordError(f) ==
  IF Len(f.newPassword) < MinPassword
  THEN "New password must be at least 6 characters"
  ELSE IF f.newPassword # f.confirmPassword
  THEN "Passwords do not match"
  ELSE "none"

\* the page of the form is on screen
FormRendered ==
  CASE formKind = "register" -> pathname # "/login"
    [] formKind = "login" -> pathname = "/login"
    [] formKind = "password" -> ProfileRendered
    [] OTHER -> FALSE

\* Register lines 29-38, Login.jsx lines 45-54, Profile lines 141-145: one
\* field changes, the messages are cleared
handleChange ==
  \E f \in FormValues(formKind) :
    /\ FormRendered
    /\ Cardinality({fld \in DOMAIN f : f[fld] # formData[fld]}) = 1
    /\ formData' = f
    /\ formError' = "none"
    /\ authError' = IF formKind = "password" THEN authError ELSE "none"
    /\ lastEvent' = "other"
    /\ UNCHANGED <<offerVars, threadVars, notifVars, profileVars, listVars,
                   formKind, formLoading, user, authLoading, lsToken, lsUser,
                   pathname, pendingNav, redirects, intervals, unreadCount,
                   srvValid, srvUnread, origin, net>>

\* handleSubmit of the two pages: the checks, then the call of the session
\* store (AuthContext lines 63-66, 86-89); err is the message of the checks
formSubmit(k, err) ==
  /\ formKind = k /\ FormRendered /\ ~formLoading
  /\ formError' = err
  /\ IF err # "none"
     THEN /\ lastEvent' = "invalid"
          /\ UNCHANGED <<formLoading, authError, srvValid, net>>
     ELSE /\ HasFree
          /\ formLoading' = TRUE
          /\ authError' = "none"
          /\ \E a \in LoginAnswers(k, AuthHeader) :
               /\ net' = Put(net, a)
               /\ srvValid' = (srvValid \/ a.status = 200)
          /\ lastEvent' = "other"
  /\ UNCHANGED <<offerVars, threadVars, notifVars, profileVars, listVars,
                 formKind, formData, user, authLoading, lsToken, lsUser,
                 pathname, pendingNav, redirects, intervals, unreadCount,
                 srvUnread, origin>>

\* Register lines 41-68
RegisterHandleSubmit ==
  /\ formKind = "register"
  /\ formSubmit("register", RegisterError(formData))

\* Login.jsx lines 57-69
LoginHandleSubmit ==
  /\ formKind = "login"
  /\ formSubmit("login", LoginError(formData))

\* Profile lines 148-168, 353.  PUT /users/me/password: 401 without a valid
\* token, otherwise done, refused with the server's message, or a failure
handlePasswordSave ==
  LET err == PasswordError(formData)
      m == Req("updatePassword", 0, "", AuthHeader)
      answers == IF AuthHeader = "tok" /\ srvValid
                 THEN {Resp(m, 200, NoOffer),
                       [Resp(m, 400, NoOffer) EXCEPT !.text = "refused"],
                       Resp(m, 500, NoOffer)}
                 ELSE {Resp(m, 401, NoOffer)}
  IN  /\ formKind = "password" /\ FormRendered /\ ~formLoading
      /\ formError' = err
      /\ IF err # "none"
         THEN /\ lastEvent' = "invalid"
              /\ UNCHANGED <<formLoading, net>>
         ELSE /\ HasFree
              /\ formLoading' = TRUE
              /\ \E a \in answers : net' = Put(net, a)
              /\ lastEvent' = "other"
      /\ UNCHANGED <<offerVars, threadVars, notifVars, profileVars,
                     listVars, sessionVars, formKind, formData>>

\* Profile lines 169-175, 180-182: the form is cleared, the toast is shown
PasswordSaveOk ==
  \E s \in net :
    /\ s.kind = "updatePassword" /\ s.status = 200
    /\ formData' = EmptyForm("password")
    /\ formLoading' = FALSE
    /\ net' = Take(net, s)
    /\ lastEvent' = "passwordUpdated"
    /\ UNCHANGED <<offerVars, threadVars, notifVars, profileVars, listVars,
                   sessionVars, formKind, formError>>

\* Profile lines 176-182, after the response interceptor
PasswordSaveFail ==
  \E s \in net :
    /\ s.kind = "updatePassword" /\ s.status # 200
    /\ lsToken' = Intercept401(s.status, lsToken)
    /\ lsUser' = InterceptUser(s.status, lsUser)
    /\ Redirect(s.status)
    /\ formError' = IF s.text # "" THEN s.text
                    ELSE "Failed to update password"
    /\ formLoading' = FALSE
    /\ net' = Take(net, s)
    /\ lastEvent' = "other"
    /\ UNCHANGED <<offerVars, threadVars, notifVars, profileVars, listVars,
                   formKind, formData, user, authLoading, authError,
                   pathname, intervals, unreadCount, srvValid, srvUnread,
                   origin>>

\* nobody is logged in and the page at path is shown
SessionLoggedOut(path) ==
  /\ user = NoUser /\ authLoading = FALSE /\ authError = "none"
  /\ lsToken = "none" /\ lsUser = NoUser
  /\ pathname = path /\ pendingNav = FALSE /\ redirects = 0
  /\ intervals = 0 /\ unreadCount = 0
  /\ notifications = <<>> /\ notifLoading = FALSE
  /\ srvValid = TRUE /\ srvUnread = 0
  /\ srvNotifs = [i \in NotifIds |-> "read"]
  /\ origin = "none"

\* one of the three forms has been opened, empty
InitForms ==
  /\ OfferAtRest /\ ThreadAtRest /\ ProfileAtRest /\ ListsAtRest
  /\ formKind \in {"register", "login", "password"}
  /\ formData = EmptyForm(formKind)
  /\ formError = "none" /\ formLoading = FALSE
  /\ CASE formKind = "password" -> SessionLoggedIn
       [] formKind = "login" -> SessionLoggedOut("/login")
       [] OTHER -> SessionLoggedOut("/app")
  /\ net = {} /\ lastEvent = "other"

NextForms ==
  \/ handleChange
  \/ RegisterHandleSubmit
  \/ LoginHandleSubmit
  \/ handlePasswordSave
  \/ LoginOk
  \/ LoginFail
  \/ PasswordSaveOk
  \/ PasswordSaveFail
  \/ UnreadCountOk
  \/ UnreadCountFail

SpecForms == InitForms /\ [][NextForms]_vars

\* C21: while the form on screen is invalid (register: an empty username,
\* email or password, a username shorter than 3, a password shorter than 6,
\* a confirmation that differs; login: an empty email or password; password
\* change: a new password shorter than 6, a confirmation that differs), no
\* step sends the form's request.
C21_InvalidNeverSent ==
  [][(CASE formKind = "register" ->
             \/ formData.username = <<>> \/ formData.email = <<>>
             \/ formData.password = <<>>
             \/ Len(formData.username) < 3
             \/ Len(formData.password) < 6
             \/ formData.confirmPassword # formData.password
        [] formKind = "login" ->
             formData.email = <<>> \/ formData.password = <<>>
        [] formKind = "password" ->
             \/ Len(formData.newPassword) < 6
             \/ formData.confirmPassword # formData.newPassword
        [] OTHER -> FALSE)
       => \A d \in Dispatched :
            d.kind \notin {"register", "login", "updatePassword"}]_vars

C21_Witness ==
  /\ lastEvent = "invalid" /\ formKind = "register"
  /\ formError = "Passwords do not match" /\ net = {}

\* ================== Collection.jsx, Wishlist.jsx, MyListings.jsx ====
ItemIds == {1, 2}

Item(i) == [_id |-> i, quantity |-> 1, maxPrice |-> 0, status |-> "active"]

\* parseFloat(t) || 0 and n.toString() on the prices at hand
ParsePrice(t) == IF t = "5" THEN 5 ELSE 0
PriceText(n) == IF n = 5 THEN "5" ELSE "0"

\* prev.filter((item) => item._id !== itemId)
FilterItems(its, i) == SelectSeq(its, LAMBDA it : it._id # i)

\* prev.map((item) => item._id === itemId ? { ...item, ... } : item) with
\* the change the update asks for: { quantity }, { maxPrice } or
\* { status: 'sold' }
MapItems(its, m) ==
  LET Patched(it) ==
        IF m.text = "sold" THEN [it EXCEPT !.status = "sold"]
        ELSE IF view = "collection" THEN [it EXCEPT !.quantity = m.count]
        ELSE [it EXCEPT !.maxPrice = m.count]
  IN  [k \in 1..Len(its) |->
         IF its[k]._id = m.oid THEN Patched(its[k]) ELSE its[k]]

HasItem(its, i) == \E k \in 1..Len(its) : its[k]._id = i
ItemOf(its, i) == its[CHOOSE k \in 1..Len(its) : its[k]._id = i]

\* GET, PUT and DELETE on /collections, /wishlists, /listings: 401 without a
\* valid token, 404 for an item the backend does not hold, otherwise the
\* change or a failure.  Each answer is the response and the list the
\* backend holds afterwards.
ItemAnswers(m) ==
  LET fail(st) == [resp |-> Resp(m, st, NoOffer), list |-> srvItems]
  IN  IF ~(m.auth = "tok" /\ srvValid) THEN {fail(401)}
      ELSE IF m.kind = "itemsGet"
      THEN {[resp |-> [Resp(m, 200, NoOffer) EXCEPT !.list = srvItems],
             list |-> srvItems], fail(500)}
      ELSE IF ~HasItem(srvItems, m.oid) THEN {fail(404)}
      ELSE {[resp |-> [Resp(m, 200, NoOffer) EXCEPT !.text = m.text],
             list |-> IF m.kind = "itemRemove"
                      THEN FilterItems(srvItems, m.oid)
                      ELSE MapItems(srvItems, m)],
            fail(500)}

CallItemAPI(m) ==
  /\ Cardinality(net) < MaxItemCalls
  /\ \E a \in ItemAnswers(m) :
       /\ net' = Put(net, a.resp)
       /\ srvItems' = a.list

\* Collection lines 43-47, Wishlist lines 46-47, MyListings lines 37-39
FetchItemsOk ==
  \E s \in net :
    /\ s.kind = "itemsGet" /\ s.status = 200
    /\ items' = s.list
    /\ totalCards' = IF view = "collection" THEN Len(s.list) ELSE totalCards
    /\ itemsLoading' = FALSE
    /\ net' = Take(net, s)
    /\ lastEvent' = "other"
    /\ UNCHANGED <<offerVars, sessionVars, notifVars, threadVars,
                   profileVars, formVars, view, itemsError, editingId,
                   editValue, toast, srvItems>>

\* Collection lines 48-53, Wishlist lines 48-53, MyListings lines 40-45
FetchItemsFail ==
  \E s \in net :
    /\ s.kind = "itemsGet" /\ s.status # 200
    /\ itemsError' = TRUE
    /\ itemsLoading' = FALSE
    /\ net' = Take(net, s)
    /\ lastEvent' = "other"
    /\ UNCHANGED <<offerVars, sessionVars, notifVars, threadVars,
                   profileVars, formVars, view, items, totalCards,
                   editingId, editValue, toast, srvItems>>

\* Collection lines 230-233, Wishlist lines 191-194: the Edit button
startEdit ==
  \E i \in ItemIds :
    /\ ~itemsLoading /\ ~itemsError /\ view \in {"collection", "wishlist"}
    /\ HasItem(items, i) /\ editingId # i
    /\ editingId' = i
    /\ editValue' = IF view = "collection" THEN ItemOf(items, i).quantity
                    ELSE PriceText(ItemOf(items, i).maxPrice)
    /\ lastEvent' = "other"
    /\ UNCHANGED <<offerVars, sessionVars, notifVars, threadVars,
                   profileVars, formVars, view, items, itemsLoading,
                   itemsError, totalCards, toast, srvItems, net>>

\* Collection line 209, Wishlist line 169: the input of the row in edit
changeEdit ==
  \E v \in (IF view = "collection" THEN {1, 2} ELSE {"", "0", "5", "x"}) :
    /\ ~itemsLoading /\ ~itemsError /\ view \in {"collection", "wishlist"}
    /\ editingId # 0 /\ HasItem(items, editingId)
    /\ v # editValue
    /\ editValue' = v
    /\ lastEvent' = "other"
    /\ UNCHANGED <<offerVars, sessionVars, notifVars, threadVars,
                   profileVars, formVars, view, items, itemsLoading,
                   itemsError, totalCards, editingId, toast, srvItems, net>>

\* a view that changes the row when the request goes out
ItemsOnUpdate_Optimistic(its, m) == MapItems(its, m)

\* Collection lines 64-66, Wishlist lines 57-59, MyListings lines 84-86:
\* nothing changes before the answer
ItemsOnUpdate(its, m) == its

\* Collection lines 64-66, 215, Wishlist lines 57-59, 176: the Save button of
\* the row in edit
handleUpdate ==
  LET m == [Req("itemUpdate", editingId, "", AuthHeader) EXCEPT
              !.count = IF view = "collection" THEN editValue
                        ELSE ParsePrice(editValue)]
  IN  /\ ~itemsLoading /\ ~itemsError /\ view \in {"collection", "wishlist"}
      /\ editingId # 0 /\ HasItem(items, editingId)
      /\ CallItemAPI(m)
      /\ items' = ItemsOnUpdate(items, m)
      /\ lastEvent' = "other"
      /\ UNCHANGED <<offerVars, sessionVars, notifVars, threadVars,
                     profileVars, formVars, view, itemsLoading, itemsError,
                     totalCards, editingId, editValue, toast>>

\* MyListings lines 84-86, 205-209: Mark as Sold on an active listing
handleMarkSold ==
  \E i \in ItemIds :
    LET m == Req("itemUpdate", i, "sold", AuthHeader)
    IN  /\ ~itemsLoading /\ ~itemsError /\ view = "listings"
        /\ HasItem(items, i) /\ ItemOf(items, i).status = "active"
        /\ CallItemAPI(m)
        /\ items' = ItemsOnUpdate(items, m)
        /\ lastEvent' = "other"
        /\ UNCHANGED <<offerVars, sessionVars, notifVars, threadVars,
                       profileVars, formVars, view, itemsLoading,
                       itemsError, totalCards, editingId, editValue, toast>>

\* Collection lines 67-74, Wishlist lines 60-68, MyListings lines 87-90
UpdateOk ==
  \E s \in net :
    /\ s.kind = "itemUpdate" /\ s.status = 200
    /\ items' = MapItems(items, s)
    /\ editingId' = IF s.text = "sold" THEN editingId ELSE 0
    /\ toast' = "success"
    /\ net' = Take(net, s)
    /\ lastEvent' = "other"
    /\ UNCHANGED <<offerVars, sessionVars, notifVars, threadVars,
                   profileVars, formVars, view, itemsLoading, itemsError,
                   totalCards, editValue, srvItems>>

\* Collection lines 82-89, 239, Wishlist lines 74-79, 200, MyListings lines
\* 68-74, 215 (the user confirms the dialog)
handleRemove ==
  \E i \in ItemIds :
    /\ ~itemsLoading /\ ~itemsError /\ HasItem(items, i)
    /\ view = "listings" => ItemOf(items, i).status = "active"
    /\ CallItemAPI(Req("itemRemove", i, "", AuthHeader))
    /\ lastEvent' = "other"
    /\ UNCHANGED <<offerVars, sessionVars, notifVars, threadVars,
                   profileVars, formVars, view, items, itemsLoading,
                   itemsError, totalCards, editingId, editValue, toast>>

\* Collection lines 89-92, Wishlist lines 79-81, MyListings lines 74-76
RemoveOk ==
  \E s \in net :
    /\ s.kind = "itemRemove" /\ s.status = 200
    /\ items' = FilterItems(items, s.oid)
    /\ totalCards' = IF view = "collection" THEN totalCards - 1
                     ELSE totalCards
    /\ toast' = "success"
    /\ net' = Take(net, s)
    /\ lastEvent' = "other"
    /\ UNCHANGED <<offerVars, sessionVars, notifVars, threadVars,
                   profileVars, formVars, view, itemsLoading, itemsError,
                   editingId, editValue, srvItems>>

\* the catch blocks: Collection lines 75-78, 92-95, Wishlist lines 68-71,
\* 81-84, MyListings lines 76-79, 90-93; only the toast
ItemFail ==
  \E s \in net :
    /\ s.kind \in {"itemUpdate", "itemRemove"} /\ s.status # 200
    /\ toast' = "error"
    /\ net' = Take(net, s)
    /\ lastEvent' = "other"
    /\ UNCHANGED <<offerVars, sessionVars, notifVars, threadVars,
                   profileVars, formVars, view, items, itemsLoading,
                   itemsError, totalCards, editingId, editValue, srvItems>>

\* Collection lines 58-61: setTimeout(() => setToast(null), 3000)
ToastExpires ==
  /\ toast # "none"
  /\ toast' = "none"
  /\ lastEvent' = "other"
  /\ UNCHANGED <<offerVars, sessionVars, notifVars, threadVars, profileVars,
                 formVars, view, items, itemsLoading, itemsError,
                 totalCards, editingId, editValue, srvItems, net>>

\* a logged-in user has opened one of the three views; the mount effect has
\* dispatched the fetch
InitLists ==
  /\ OfferAtRest /\ ThreadAtRest /\ SessionLoggedIn
  /\ ProfileAtRest /\ FormsAtRest
  /\ view \in {"collection", "wishlist", "listings"}
  /\ items = <<>> /\ itemsLoading = TRUE /\ itemsError = FALSE
  /\ totalCards = 0 /\ editingId = 0
  /\ editValue = (IF view = "wishlist" THEN "" ELSE 1)
  /\ toast = "none"
  /\ srvItems = <<Item(1), Item(2)>>
  /\ \E st \in {200, 500} :
       net = Put({}, [Resp(Req("itemsGet", 0, "", "tok"), st, NoOffer)
                        EXCEPT !.list = IF st = 200 THEN srvItems
                                        ELSE <<>>])
  /\ lastEvent = "other"

NextLists ==
  \/ FetchItemsOk
  \/ FetchItemsFail
  \/ startEdit
  \/ changeEdit
  \/ handleUpdate
  \/ handleMarkSold
  \/ UpdateOk
  \/ handleRemove
  \/ RemoveOk
  \/ ItemFail
  \/ ToastExpires

SpecLists == InitLists /\ [][NextLists]_vars

\* C26: in the three list views the local list changes only in a step that
\* receives a successful answer; the step that receives the failure of a
\* removal or an update leaves the list as it is and shows an error message.
C26_NoOptimisticListUpdate ==
  [][/\ items' # items => \E m \in Delivered : m.status = 200
     /\ \A m \in Delivered :
          (m.kind \in {"itemUpdate", "itemRemove"} /\ m.status # 200) =>
             items' = items /\ toast' = "error"]_vars

C26_Witness ==
  /\ toast = "error" /\ Len(items) = 2 /\ net = {}
  /\ \A k \in 1..Len(items) : items[k] = Item(items[k]._id)

====
